---------------------------- MODULE Spec2Model ----------------------------
(***************************************************************************)
(* Model of peloton's StatsAggregator (src/statistics/stats_aggregator.cpp):*)
(* the registry of per-thread BackendStatsContexts, the retired history,   *)
(* the aggregation cycle run by the aggregator thread, the throughput      *)
(* estimator, the stats log file, and the aggregator thread's life:        *)
(* LaunchAggregator, RunAggregator's timed wait and ShutdownAggregator.    *)
(*                                                                         *)
(* RegisterContext and UnregisterContext run their bodies under            *)
(* stats_mutex_, so each is one atomic step with respect to the other.     *)
(* Aggregate takes no lock: the steps of its loop over backend_stats_ and  *)
(* its read of stats_history_ interleave with the registry operations and  *)
(* with the workers' increments. Of what this data race can do the model   *)
(* keeps: an entry erased before the iterator reaches it is not visited,   *)
(* an entry inserted during the loop is visited or not, and the entry the  *)
(* iterator is at is dereferenced even if it has been erased meanwhile.    *)
(* Everything Aggregate does after its read of stats_history_ touches only *)
(* the aggregator thread's own data and is one step.                       *)
(*                                                                         *)
(* PL_ASSERT is an enabled assertion: its failure aborts the process.      *)
(* A context keeps the metrics of one database, of which the model tracks  *)
(* the committed-transaction counter and the completed-query queue.        *)
(* Throughput figures are C++ doubles; the model computes them as exact    *)
(* rationals <<numerator, denominator>>.                                   *)
(*                                                                         *)
(* LaunchAggregator and ShutdownAggregator are called by one controlling   *)
(* thread, one call after the other (the constructor, the destructor, a    *)
(* test driver); each statement of theirs is a step of its own, so the     *)
(* aggregator thread runs between them. wait_for returns timeout when the  *)
(* interval has elapsed and no_timeout when the condition variable was     *)
(* notified or, as the standard allows, for no reason at all.              *)
(***************************************************************************)
EXTENDS Integers, Sequences, FiniteSets, TLC

\* ------------------------------------------------------------------ bounds
MaxCtx == 2        \* BackendStatsContext objects ever constructed
MaxInc == 2        \* counter increments ever applied by all threads
MaxRec == 1        \* completed-query records ever enqueued
MaxCycles == 2     \* aggregation cycles run by one aggregator thread
MaxLaunch == 1     \* aggregator threads spawned after the constructor's

\* --------------------------------------------------------------- constants
STATS_AGGREGATION_INTERVAL_MS == 1000
STATS_LOG_INTERVALS == 2         \* cycles between two summaries in the log
Intervals == {1000, 2000}        \* values of the constructor's argument

Workers == {"w1", "w2"}
AggId == "agg"                   \* aggregator_thread_.get_id()
Ids == Workers \cup {AggId}
Contexts == 1..MaxCtx
Records == 1..MaxRec
Counters == {"txn_committed"}       \* the database metric the cycle reads
NoNode == [id |-> "none", ctx |-> 0]

VARIABLES
  backend_stats_,             \* unordered_map: thread id -> context
  thread_number_,
  stats_history_,             \* BackendStatsContext of the retired threads
  aggregated_stats_,          \* BackendStatsContext rebuilt by every cycle
  ctx_stats,                  \* the BackendStatsContext objects themselves
  next_ctx,                   \* next context to be constructed
  next_rec,                   \* next completed-query record to be enqueued
  aggregation_interval_ms_,
  is_aggregating_,
  total_prev_txn_committed_,
  interval_cnt,               \* RunAggregator's local
  weighted_avg_throughput,    \* RunAggregator's local, a rational
  throughput_,                \* Aggregate's local of the last cycle, a rational
  agg_pc,                     \* "wait" | "run" | "loop" | "done"
  pending,                    \* entries of the map ahead of the loop's iterator
  cur,                        \* the entry `val` the iterator is at, or NoNode
  failed,                     \* a PL_ASSERT has fired: the process is gone
  already_deleted,            \* "stats_context already deleted!" was logged
  ctl_pc,                     \* controlling thread: "idle"|"launch"|"notify"|"join"
  notified,                   \* notify_one has woken the waiting thread
  threads,                    \* threads running RunAggregator
  launches,                   \* threads spawned after the constructor's
  ofs_good,                   \* ofs_ is open and no write to it has failed
  ofs_,                       \* the summaries appended to the stats log file
  \* history variables, read by the properties only
  noop_calls,                 \* calls that found nothing to do: "launch", "shutdown"
  stop_at,                    \* agg_pc when ShutdownAggregator cleared the flag
  applied,                    \* increments ever applied, per counter
  folds,                      \* per context: times folded into stats_history_
  cyc_start,                  \* entries of the map when the last cycle began
  cyc_live,                   \* contexts the running cycle has read in place
  cyc_dirty,                  \* a counter was incremented during the cycle
  deadline,                   \* per record: the cycle that has to emit it
  emitted                     \* sequence of [rec, cycle, ok] handed to the sink

vars == <<backend_stats_, thread_number_, stats_history_, aggregated_stats_,
          ctx_stats, next_ctx, next_rec, aggregation_interval_ms_,
          is_aggregating_, total_prev_txn_committed_, interval_cnt,
          weighted_avg_throughput, throughput_, agg_pc, pending, cur, failed,
          already_deleted, ctl_pc, notified, threads, launches, ofs_good, ofs_,
          noop_calls, stop_at, applied, folds, cyc_start, cyc_live, cyc_dirty, deadline, emitted>>

\* --------------------------------------------------------------- rationals
RECURSIVE GCD(_, _)
GCD(a, b) == IF b = 0 THEN a ELSE GCD(b, a % b)
Abs(x) == IF x < 0 THEN -x ELSE x
Rat(n, d) ==
  LET s == IF d < 0 THEN -1 ELSE 1
      g == GCD(Abs(n), Abs(d))
  IN  <<(s * n) \div g, (s * d) \div g>>
RatAdd(x, y) == Rat(x[1] * y[2] + y[1] * x[2], x[2] * y[2])
RatMul(x, y) == Rat(x[1] * y[1], x[2] * y[2])
RatInt(n) == <<n, 1>>

\* ------------------------------------------------------ BackendStatsContext
ZeroCounters == [c \in Counters |-> 0]
EmptyStats == [cnt |-> ZeroCounters, q |-> <<>>]

\* dst.Aggregate(src): counters are added, src's completed-query queue is
\* dequeued into dst's
AggregateInto(dst, src) ==
  [cnt |-> [c \in Counters |-> dst.cnt[c] + src.cnt[c]], q |-> dst.q \o src.q]
Dequeued(src) == [src EXCEPT !.q = <<>>]
ResetStats(s) == EmptyStats

\* ------------------------------------------------------------------- Init
\* The state the constructor leaves: empty registry, zeroed history and
\* accumulator, the aggregator thread launched and waiting.
InitWith(interval_ms) ==
  /\ backend_stats_ = [x \in {} |-> 0]
  /\ thread_number_ = 0
  /\ stats_history_ = EmptyStats
  /\ aggregated_stats_ = EmptyStats
  /\ ctx_stats = [c \in Contexts |-> EmptyStats]
  /\ next_ctx = 1
  /\ next_rec = 1
  /\ aggregation_interval_ms_ = interval_ms
  /\ is_aggregating_ = TRUE
  /\ total_prev_txn_committed_ = 0
  /\ interval_cnt = 0
  /\ weighted_avg_throughput = RatInt(0)
  /\ throughput_ = RatInt(0)
  /\ agg_pc = "wait"
  /\ pending = {}
  /\ cur = NoNode
  /\ already_deleted = FALSE
  /\ ctl_pc = "idle"
  /\ notified = FALSE
  /\ threads = 1
  /\ launches = 0
  /\ ofs_good = TRUE
  /\ ofs_ = <<>>
  /\ noop_calls = {}
  /\ stop_at = "none"
  /\ applied = ZeroCounters
  /\ folds = [c \in Contexts |-> 0]
  /\ cyc_start = {}
  /\ cyc_live = {}
  /\ cyc_dirty = FALSE
  /\ deadline = [r \in Records |-> 0]
  /\ emitted = <<>>

Init == \E ms \in Intervals : InitWith(ms) /\ failed = FALSE

\* The constructor called with the default interval.
InitDefault == InitWith(STATS_AGGREGATION_INTERVAL_MS) /\ failed = FALSE

InLoop == agg_pc = "loop"
Registered == DOMAIN backend_stats_

aggVars == <<aggregated_stats_, total_prev_txn_committed_, interval_cnt,
             weighted_avg_throughput, throughput_, agg_pc, cur, cyc_start,
             cyc_live, emitted, ofs_>>
lifeVars == <<is_aggregating_, ctl_pc, notified, threads, launches>>
confVars == <<aggregation_interval_ms_, lifeVars, ofs_good, noop_calls,
              stop_at>>
engineVars == <<backend_stats_, thread_number_, stats_history_,
                aggregated_stats_, ctx_stats, next_ctx, next_rec,
                aggregation_interval_ms_, total_prev_txn_committed_,
                throughput_, pending, cur, failed, already_deleted, ofs_good,
                ofs_, applied, folds, cyc_start, cyc_live, cyc_dirty, deadline,
                emitted>>

\* --------------------------------------------------------------- Registry
\* faulty variant: the assertion is missing
RegisterAsserted_Off(id) == TRUE

\* PL_ASSERT(backend_stats_.find(id_) == backend_stats_.end())
RegisterAsserted(id) == id \notin Registered

\* backend_stats_[id_] = context_
MapInsert(m, id, c) ==
  [x \in DOMAIN m \cup {id} |-> IF x = id THEN c ELSE m[x]]

\* backend_stats_.erase(id)
MapErase(m, id) == [x \in DOMAIN m \ {id} |-> m[x]]

\* faulty variant: the entry is erased without being folded
FoldIntoHistory_Dropped(c) == stats_history_

\* stats_history_.Aggregate(*backend_stats_[id])
FoldIntoHistory(c) == AggregateInto(stats_history_, ctx_stats[c])

\* faulty variant: the decrement is outside the found branch
ThreadNumberAlwaysDecremented(found) == thread_number_ - 1

\* thread_number_ after UnregisterContext: decremented in the found branch only
ThreadNumberAfterUnregister(found) ==
  IF found THEN thread_number_ - 1 ELSE thread_number_

\* faulty variant: the increment is missing
ThreadNumberAfterRegister_Skipped == thread_number_

\* thread_number_++
ThreadNumberAfterRegister == thread_number_ + 1

\* The assertion failed: the process aborts and nothing of its state is left.
Abort ==
  /\ failed' = TRUE
  /\ \E ms \in {aggregation_interval_ms_} :
       /\ backend_stats_' = [x \in {} |-> 0]
       /\ thread_number_' = 0
       /\ stats_history_' = EmptyStats
       /\ aggregated_stats_' = EmptyStats
       /\ ctx_stats' = [c \in Contexts |-> EmptyStats]
       /\ next_ctx' = 1
       /\ next_rec' = 1
       /\ aggregation_interval_ms_' = ms
       /\ is_aggregating_' = FALSE
       /\ total_prev_txn_committed_' = 0
       /\ interval_cnt' = 0
       /\ weighted_avg_throughput' = RatInt(0)
       /\ throughput_' = RatInt(0)
       /\ agg_pc' = "wait"
       /\ pending' = {}
       /\ cur' = NoNode
       /\ already_deleted' = FALSE
       /\ ctl_pc' = "idle"
       /\ notified' = FALSE
       /\ threads' = 0
       /\ launches' = 0
       /\ ofs_good' = FALSE
       /\ ofs_' = <<>>
       /\ noop_calls' = {}
       /\ stop_at' = "none"
       /\ applied' = ZeroCounters
       /\ folds' = [c \in Contexts |-> 0]
       /\ cyc_start' = {}
       /\ cyc_live' = {}
       /\ cyc_dirty' = FALSE
       /\ deadline' = [r \in Records |-> 0]
       /\ emitted' = <<>>

\* A thread constructs its BackendStatsContext, which registers itself. An
\* entry inserted while the loop's iterator is at an entry lands ahead of the
\* iterator or behind it.
RegisterContext(id) ==
  /\ ~failed
  /\ next_ctx <= MaxCtx
  /\ IF RegisterAsserted(id)
     THEN /\ thread_number_' = ThreadNumberAfterRegister
          /\ backend_stats_' = MapInsert(backend_stats_, id, next_ctx)
          /\ next_ctx' = next_ctx + 1
          /\ pending' \in IF cur # NoNode THEN {pending, pending \cup {id}}
                                          ELSE {pending}
          /\ UNCHANGED <<stats_history_, ctx_stats, next_rec, failed,
                         already_deleted, applied, folds, cyc_dirty, deadline>>
          /\ UNCHANGED aggVars
          /\ UNCHANGED confVars
     ELSE Abort

UnregisterContext(id) ==
  /\ ~failed
  /\ thread_number_' = ThreadNumberAfterUnregister(id \in Registered)
  /\ IF id \in Registered
     THEN LET c == backend_stats_[id] IN
          /\ stats_history_' = FoldIntoHistory(c)
          /\ ctx_stats' = [ctx_stats EXCEPT ![c] = Dequeued(@)]
          /\ backend_stats_' = MapErase(backend_stats_, id)
          /\ pending' = pending \ {id}
          /\ folds' = [folds EXCEPT ![c] = @ + 1]
          /\ UNCHANGED already_deleted
     ELSE /\ already_deleted' = TRUE
          /\ UNCHANGED <<stats_history_, ctx_stats, backend_stats_, pending,
                         folds>>
  /\ UNCHANGED <<next_ctx, next_rec, failed, applied, cyc_dirty, deadline>>
  /\ UNCHANGED aggVars
  /\ UNCHANGED confVars

\* ---------------------------------------------------------------- Workers
AppliedTotal == applied["txn_committed"]

\* The thread registered as id increments one counter of its own context.
Increment(id, f) ==
  /\ ~failed
  /\ id \in Registered
  /\ AppliedTotal < MaxInc
  /\ ctx_stats' = [ctx_stats EXCEPT ![backend_stats_[id]].cnt[f] = @ + 1]
  /\ applied' = [applied EXCEPT ![f] = @ + 1]
  /\ cyc_dirty' = (cyc_dirty \/ InLoop)
  /\ UNCHANGED <<backend_stats_, thread_number_, stats_history_, next_ctx,
                 next_rec, pending, failed, already_deleted, folds, deadline>>
  /\ UNCHANGED aggVars
  /\ UNCHANGED confVars

\* The thread registered as id enqueues a completed-query record in its own
\* context. A record enqueued while the aggregator waits is due in the next
\* cycle, one enqueued during a cycle is due in the cycle after it; the
\* aggregator's own records are never due.
EnqueueQuery(id) ==
  /\ ~failed
  /\ id \in Registered
  /\ next_rec <= MaxRec
  /\ ctx_stats' = [ctx_stats EXCEPT ![backend_stats_[id]].q = Append(@, next_rec)]
  /\ next_rec' = next_rec + 1
  /\ deadline' = [deadline EXCEPT ![next_rec] =
                    IF id = AggId THEN 0
                    ELSE interval_cnt + (IF InLoop THEN 1 ELSE 0) + 1]
  /\ UNCHANGED <<backend_stats_, thread_number_, stats_history_, next_ctx,
                 pending, failed, already_deleted, applied, folds, cyc_dirty>>
  /\ UNCHANGED aggVars
  /\ UNCHANGED confVars

\* ------------------------------------------------------------- Aggregator
\* faulty variant: no entry is excluded
IncludedInCycle_All(id) == TRUE

\* faulty variant: the comparison is inverted
IncludedInCycle_Inverted(id) == id = AggId

\* if (val.first != this_id)
IncludedInCycle(id) == id # AggId

\* current_txns_committed: the committed counter of the accumulator (the
\* model keeps the metrics of a single database)
CommittedTotal(s) == s.cnt["txn_committed"]

\* (double)txns_committed_this_interval / 1000 * STATS_AGGREGATION_INTERVAL_MS
InstantThroughput(delta) ==
  RatMul(Rat(delta, 1000), RatInt(STATS_AGGREGATION_INTERVAL_MS))

\* double alpha = 0.4
alpha == Rat(4, 10)

\* faulty variant: the first cycle smooths against the initial 0.0
WeightedAvg_NoWarmUp(cnt, thr, prev) ==
  RatAdd(RatMul(Rat(4, 10), thr), RatMul(Rat(6, 10), prev))

\* if (interval_cnt == 1) ... else ...
WeightedAvg(cnt, thr, prev) ==
  IF cnt = 1 THEN thr
  ELSE RatAdd(RatMul(alpha, thr),
              RatMul(RatAdd(RatInt(1), RatMul(RatInt(-1), alpha)), prev))

\* UpdateQueryMetrics: every record of the accumulator's queue is dequeued
\* and inserted in the sink transaction
SinkRows(q, cycle, ok) ==
  [i \in 1..Len(q) |-> [rec |-> q[i], cycle |-> cycle, ok |-> ok]]

\* The iterator's next position: an entry ahead of it, or the end.
Advance(node) ==
  /\ cur' = node
  /\ IF node = NoNode THEN pending' = pending
                      ELSE pending' = pending \ {node.id}
NextNodes ==
  IF pending = {} THEN {NoNode}
  ELSE {[id |-> id, ctx |-> backend_stats_[id]] : id \in pending}

\* faulty variant: a summary is written in every cycle
LogDue_Every(cnt) == TRUE

\* if (interval_cnt % STATS_LOG_INTERVALS == 0)
LogDue(cnt) == cnt % STATS_LOG_INTERVALS = 0

\* What the cycle appends to ofs_: the interval, the accumulator's dump and
\* the weighted, the average and the current throughput. ofs_ throws nothing
\* unless told to: a write to a stream that is not good is dropped.
LogAppend(log, cnt, stats, weighted, thr) ==
  IF LogDue(cnt) /\ ofs_good
  THEN Append(log, [interval |-> cnt,
                    stats |-> stats.cnt,
                    weighted |-> weighted,
                    average |-> Rat(CommittedTotal(stats) * 1000,
                                    cnt * STATS_AGGREGATION_INTERVAL_MS),
                    current |-> thr])
  ELSE log

\* faulty variant: the cycle resets stats_history_ after reading it
HistoryAfterCycle_Reset(h) == EmptyStats

\* stats_history_ after aggregated_stats_.Aggregate(stats_history_): its
\* counters are read, its completed-query queue is dequeued
HistoryAfterCycle(h) == Dequeued(h)

\* faulty variant: a sink transaction that failed ends RunAggregator's loop
PcAfterCycle_StopOnFailure(ok) == IF ok THEN "wait" ELSE "done"

\* Aggregate returns to RunAggregator's loop, which waits again: the result
\* of CommitTransaction is not looked at
PcAfterCycle(ok) == "wait"

\* Aggregate starts: it counts the interval, resets the accumulator and its
\* loop takes backend_stats_.begin(). It starts once RunAggregator has read
\* is_aggregating_ as true after a wait_for that timed out: the thread is at
\* "run", or it is at "wait" and the time-out, the read and the call are
\* taken in this one step.
\* faulty variant: the loop's condition does not read is_aggregating_
KeepsRunning_Always == TRUE

\* the second operand of the loop's condition: && is_aggregating_
KeepsRunning == is_aggregating_

CycleDue ==
  IF agg_pc = "wait" THEN KeepsRunning /\ interval_cnt < MaxCycles
                     ELSE agg_pc = "run"

AggBegin ==
  /\ ~failed
  /\ CycleDue
  /\ interval_cnt' = interval_cnt + 1
  /\ aggregated_stats_' = ResetStats(aggregated_stats_)
  /\ \E id \in Registered \cup {"none"} :
       IF Registered = {}
       THEN id = "none" /\ cur' = NoNode /\ pending' = {}
       ELSE /\ id \in Registered
            /\ cur' = [id |-> id, ctx |-> backend_stats_[id]]
            /\ pending' = Registered \ {id}
  /\ agg_pc' = "loop"
  /\ cyc_start' = {[id |-> id, ctx |-> backend_stats_[id]] : id \in Registered}
  /\ cyc_live' = {}
  /\ cyc_dirty' = FALSE
  /\ UNCHANGED <<backend_stats_, thread_number_, stats_history_, ctx_stats,
                 next_ctx, next_rec, total_prev_txn_committed_,
                 weighted_avg_throughput, throughput_, failed, already_deleted,
                 applied, folds, deadline, emitted, ofs_>>
  /\ UNCHANGED confVars

\* The loop's body on the entry the iterator is at, then ++it: the context
\* is folded into the accumulator unless the entry is the aggregator
\* thread's own.
AggFold ==
  /\ ~failed
  /\ InLoop
  /\ cur # NoNode
  /\ IF IncludedInCycle(cur.id)
     THEN /\ aggregated_stats_' =
               AggregateInto(aggregated_stats_, ctx_stats[cur.ctx])
          /\ ctx_stats' = [ctx_stats EXCEPT ![cur.ctx] = Dequeued(@)]
          /\ cyc_live' = cyc_live \cup {cur.ctx}
     ELSE UNCHANGED <<aggregated_stats_, ctx_stats, cyc_live>>
  /\ \E node \in NextNodes : Advance(node)
  /\ UNCHANGED <<backend_stats_, thread_number_, stats_history_, next_ctx,
                 next_rec, total_prev_txn_committed_, interval_cnt,
                 weighted_avg_throughput, throughput_, agg_pc, failed,
                 already_deleted, applied, folds, cyc_start, cyc_dirty,
                 deadline, emitted, ofs_>>
  /\ UNCHANGED confVars

\* The loop is over: stats_history_ is folded into the accumulator, the
\* throughput figures are computed and UpdateMetrics hands the accumulator
\* to the sink, whose transaction commits (ok) or not; then the summary is
\* written to the stats log if it is due.
AggFinish(ok) ==
  /\ ~failed
  /\ InLoop
  /\ cur = NoNode
  /\ LET merged == AggregateInto(aggregated_stats_, stats_history_)
         current_txns_committed == CommittedTotal(merged)
         txns_committed_this_interval ==
           current_txns_committed - total_prev_txn_committed_
         thr == InstantThroughput(txns_committed_this_interval)
         weighted == WeightedAvg(interval_cnt, thr, weighted_avg_throughput)
     IN  /\ aggregated_stats_' = Dequeued(merged)
         /\ stats_history_' = HistoryAfterCycle(stats_history_)
         /\ throughput_' = thr
         /\ weighted_avg_throughput' = weighted
         /\ total_prev_txn_committed_' = current_txns_committed
         /\ emitted' = emitted \o SinkRows(merged.q, interval_cnt, ok)
         /\ ofs_' = LogAppend(ofs_, interval_cnt, merged, weighted, thr)
  /\ agg_pc' = PcAfterCycle(ok)
  /\ pending' = {}
  /\ cyc_live' = {}
  /\ cyc_dirty' = FALSE
  /\ UNCHANGED <<backend_stats_, thread_number_, ctx_stats, next_ctx, next_rec,
                 interval_cnt, cur, failed, already_deleted, applied, folds,
                 cyc_start, deadline>>
  /\ UNCHANGED confVars

\* ---------------------------------------------------------------- Life cycle
\* faulty variant: the thread is spawned whether or not one is running
LaunchGuard_Off == TRUE

\* if (!is_aggregating_)
LaunchGuard == ~is_aggregating_

\* faulty variant: the thread is notified and joined whether or not it runs
ShutdownGuard_Off == TRUE

\* if (is_aggregating_)
ShutdownGuard == is_aggregating_

\* LaunchAggregator up to the construction of the thread. The new thread
\* starts RunAggregator: its locals are initialised and it waits. Called
\* while the aggregator runs, it does nothing.
LaunchAggregator ==
  /\ ~failed
  /\ ctl_pc = "idle"
  /\ IF LaunchGuard
     THEN /\ launches < MaxLaunch
          /\ launches' = launches + 1
          /\ threads' = threads + 1
          /\ agg_pc' = "wait"
          /\ interval_cnt' = 0
          /\ weighted_avg_throughput' = RatInt(0)
          /\ notified' = FALSE
          /\ ctl_pc' = "launch"
          /\ stop_at' = "none"
          /\ UNCHANGED <<is_aggregating_, noop_calls>>
     ELSE /\ noop_calls' = noop_calls \cup {"launch"}
          /\ UNCHANGED <<launches, threads, agg_pc, interval_cnt,
                         weighted_avg_throughput, notified, ctl_pc,
                         is_aggregating_, stop_at>>
  /\ UNCHANGED engineVars

\* LaunchAggregator's last statement: is_aggregating_ = true
LaunchFlag ==
  /\ ~failed
  /\ ctl_pc = "launch"
  /\ is_aggregating_' = TRUE
  /\ ctl_pc' = "idle"
  /\ UNCHANGED <<notified, threads, launches, noop_calls, agg_pc, interval_cnt,
                 weighted_avg_throughput, stop_at>>
  /\ UNCHANGED engineVars

\* ShutdownAggregator up to is_aggregating_ = false. Called while the
\* aggregator does not run, by the controlling thread or by another, it
\* does nothing.
ShutdownAggregator ==
  /\ ~failed
  /\ IF ShutdownGuard
     THEN /\ ctl_pc = "idle"
          /\ is_aggregating_' = FALSE
          /\ ctl_pc' = "notify"
          /\ stop_at' = agg_pc
          /\ UNCHANGED noop_calls
     ELSE /\ noop_calls' = noop_calls \cup {"shutdown"}
          /\ UNCHANGED <<is_aggregating_, ctl_pc, stop_at>>
  /\ UNCHANGED <<notified, threads, launches, agg_pc, interval_cnt,
                 weighted_avg_throughput>>
  /\ UNCHANGED engineVars

\* exec_finished_.notify_one(): a thread blocked in wait_for is woken, and
\* if none is blocked the notification is lost.
ShutdownNotify ==
  /\ ~failed
  /\ ctl_pc = "notify"
  /\ notified' = (agg_pc = "wait")
  /\ ctl_pc' = "join"
  /\ UNCHANGED <<is_aggregating_, threads, launches, noop_calls, agg_pc,
                 interval_cnt, weighted_avg_throughput, stop_at>>
  /\ UNCHANGED engineVars

\* aggregator_thread_.join() returns: RunAggregator has returned.
ShutdownJoin ==
  /\ ~failed
  /\ ctl_pc = "join"
  /\ agg_pc = "done"
  /\ ctl_pc' = "idle"
  /\ UNCHANGED <<is_aggregating_, notified, threads, launches, noop_calls,
                 agg_pc, interval_cnt, weighted_avg_throughput, stop_at>>
  /\ UNCHANGED engineVars

\* RunAggregator leaves its loop and returns.
ThreadExit ==
  /\ agg_pc' = "done"
  /\ threads' = threads - 1
  /\ notified' = FALSE

\* faulty variant: a wait that was not ended by its time-out is followed by
\* a cycle
NoTimeout_Cycle == agg_pc' = "run" /\ notified' = FALSE /\ UNCHANGED threads

\* wait_for(...) == std::cv_status::timeout is false: the loop is left
NoTimeout == ThreadExit

\* wait_for returns timeout and is_aggregating_ is read: the loop's body is
\* entered or the loop is left.
WaitTimeout ==
  /\ ~failed
  /\ agg_pc = "wait"
  /\ IF KeepsRunning
     THEN /\ interval_cnt < MaxCycles
          /\ agg_pc' = "run"
          /\ notified' = FALSE
          /\ UNCHANGED threads
     ELSE ThreadExit
  /\ UNCHANGED <<is_aggregating_, ctl_pc, launches, noop_calls, interval_cnt,
                 weighted_avg_throughput, stop_at>>
  /\ UNCHANGED engineVars

\* wait_for returns no_timeout, woken by notify_one: the loop is left.
WaitNotified ==
  /\ ~failed
  /\ agg_pc = "wait"
  /\ notified
  /\ NoTimeout
  /\ UNCHANGED <<is_aggregating_, ctl_pc, launches, noop_calls, interval_cnt,
                 weighted_avg_throughput, stop_at>>
  /\ UNCHANGED engineVars

\* wait_for returns no_timeout with no notification, a spurious wake-up:
\* the loop's condition has no other test, so the loop is left.
WaitSpurious ==
  /\ ~failed
  /\ agg_pc = "wait"
  /\ ~notified
  /\ NoTimeout
  /\ UNCHANGED <<is_aggregating_, ctl_pc, launches, noop_calls, interval_cnt,
                 weighted_avg_throughput, stop_at>>
  /\ UNCHANGED engineVars

\* The stats log file fails: it could not be opened, or a write to it has
\* failed.
OfsFail ==
  /\ ~failed
  /\ ofs_good
  /\ ofs_good' = FALSE
  /\ UNCHANGED <<backend_stats_, thread_number_, stats_history_, ctx_stats,
                 next_ctx, next_rec, pending, failed, already_deleted, applied,
                 folds, cyc_dirty, deadline, aggregation_interval_ms_,
                 noop_calls, stop_at>>
  /\ UNCHANGED aggVars
  /\ UNCHANGED lifeVars

\* ------------------------------------------------------------------- Next
\* The engine while it runs: the aggregator thread launched by the
\* constructor and never shut down, its wake-up and the start of its cycle
\* taken as one step.
Next ==
  \/ \E id \in Ids : RegisterContext(id)
  \/ \E id \in Ids : UnregisterContext(id)
  \/ \E id \in Ids, f \in Counters : Increment(id, f)
  \/ \E id \in Ids : EnqueueQuery(id)
  \/ AggBegin
  \/ AggFold
  \/ \E ok \in BOOLEAN : AggFinish(ok)

Spec == Init /\ [][Next]_vars

\* The registry and the workers alone, without the aggregator thread: no
\* step of the aggregator writes backend_stats_, thread_number_ or a counter
\* of a context or of stats_history_.
NextRegistry ==
  \/ \E id \in Ids : RegisterContext(id)
  \/ \E id \in Ids : UnregisterContext(id)
  \/ \E id \in Ids, f \in Counters : Increment(id, f)
  \/ \E id \in Ids : EnqueueQuery(id)

SpecRegistry == InitDefault /\ [][NextRegistry]_vars

\* The counters alone: no completed-query record is enqueued, so the queues
\* stay empty, and UnregisterContext is called for registered identities
\* only: called for another it changes nothing but the log.
NextCounters ==
  \/ \E id \in Ids : RegisterContext(id)
  \/ \E id \in Registered : UnregisterContext(id)
  \/ \E id \in Ids, f \in Counters : Increment(id, f)
  \/ AggBegin
  \/ AggFold
  \/ \E ok \in BOOLEAN : AggFinish(ok)

SpecCounters == InitDefault /\ [][NextCounters]_vars

\* The completed-query records alone: no counter is incremented, and no step
\* that moves a record reads a counter. UnregisterContext as in NextCounters.
NextQueries ==
  \/ \E id \in Ids : RegisterContext(id)
  \/ \E id \in Registered : UnregisterContext(id)
  \/ \E id \in Ids : EnqueueQuery(id)
  \/ AggBegin
  \/ AggFold
  \/ \E ok \in BOOLEAN : AggFinish(ok)

SpecQueries == InitDefault /\ [][NextQueries]_vars

\* The aggregator thread's life: the controlling thread launches and shuts
\* down, the aggregator thread waits, wakes and runs its cycles, and workers
\* register, so that the cycles have entries to go through. No identity is
\* registered twice, so the process is never aborted; no step here reads a
\* counter or a queue.
NextLifecycle ==
  \/ LaunchAggregator
  \/ LaunchFlag
  \/ ShutdownAggregator
  \/ ShutdownNotify
  \/ ShutdownJoin
  \/ WaitTimeout
  \/ WaitNotified
  \/ WaitSpurious
  \/ AggBegin
  \/ AggFold
  \/ \E ok \in BOOLEAN : AggFinish(ok)
  \/ \E id \in Workers \ Registered : RegisterContext(id)

SpecLifecycle == InitDefault /\ [][NextLifecycle]_vars

\* The aggregator thread's steps other than the end of a cycle.
AggregatorStep == WaitTimeout \/ WaitNotified \/ AggBegin \/ AggFold

\* The thread, at the end of its loop, leaves the cycle: the change of
\* agg_pc that AggFinish makes.
CycleLeaves == ~failed /\ InLoop /\ cur = NoNode /\ agg_pc' = "wait"

\* The same under the scheduling the platform gives: a thread that can take
\* a step takes one, the interval of a wait_for elapses, and join returns
\* once the thread has ended. A spurious wake-up may never happen.
SpecLifecycleFair ==
  /\ SpecLifecycle
  /\ WF_vars(AggregatorStep)
  /\ WF_agg_pc(CycleLeaves)
  /\ WF_vars(ShutdownNotify)
  /\ WF_vars(ShutdownJoin)

\* The retired history: the workers register, count and unregister, present
\* or not, while the aggregator thread runs its cycles.
NextHistory ==
  \/ \E id \in Workers : RegisterContext(id)
  \/ \E id \in Workers : UnregisterContext(id)
  \/ \E id \in Ids, f \in Counters : Increment(id, f)
  \/ AggBegin
  \/ AggFold
  \/ \E ok \in BOOLEAN : AggFinish(ok)

SpecHistory == InitDefault /\ [][NextHistory]_vars

\* The sink: workers register, count and enqueue records, none unregisters
\* or registers twice, and the sink's transactions commit or fail.
NextSink ==
  \/ \E id \in Workers \ Registered : RegisterContext(id)
  \/ \E id \in Ids, f \in Counters : Increment(id, f)
  \/ \E id \in Ids : EnqueueQuery(id)
  \/ AggBegin
  \/ AggFold
  \/ \E ok \in BOOLEAN : AggFinish(ok)

SpecSink == InitDefault /\ [][NextSink]_vars

\* The stats log file: workers register and count, the cycles write their
\* summaries, and the file may fail at any time.
NextLog ==
  \/ \E id \in Workers \ Registered : RegisterContext(id)
  \/ \E id \in Ids, f \in Counters : Increment(id, f)
  \/ AggBegin
  \/ AggFold
  \/ \E ok \in BOOLEAN : AggFinish(ok)
  \/ OfsFail

SpecLog == InitDefault /\ [][NextLog]_vars

\* ------------------------------------------------------------- properties
RECURSIVE SumCnt(_, _)
\* the sum of counter f over the contexts registered under the ids of S
SumCnt(S, f) ==
  IF S = {} THEN 0
  ELSE LET x == CHOOSE y \in S : TRUE
       IN  ctx_stats[backend_stats_[x]].cnt[f] + SumCnt(S \ {x}, f)

LiveSum(f) == SumCnt(Registered, f)
NonSelfLiveSum(f) == SumCnt(Registered \ {AggId}, f)
CycleEnds == \E ok \in BOOLEAN : AggFinish(ok)

\* C1 - Conservation: in every reachable state, for every counter, the
\* stats_history_ counter plus the counters of the registered contexts is
\* the number of increments ever applied; a context is folded into
\* stats_history_ at most once, and a registered context has not been folded.
C1_Conservation ==
  /\ \A f \in Counters : stats_history_.cnt[f] + LiveSum(f) = applied[f]
  /\ \A c \in Contexts : folds[c] <= 1
  /\ \A id \in Registered : folds[backend_stats_[id]] = 0

\* C1 witness: a context with counts has been folded into stats_history_
\* while another context with counts is still registered.
C1_Witness ==
  /\ \E c \in Contexts : folds[c] = 1
  /\ stats_history_.cnt["txn_committed"] > 0
  /\ LiveSum("txn_committed") > 0

\* C2 - Live or retired, never both, never neither: when a cycle reads
\* stats_history_, every worker context registered when the cycle began has
\* been read in place by the cycle or is in stats_history_, and not both.
C2_LiveXorRetired ==
  [][CycleEnds =>
       \A n \in cyc_start :
         n.id # AggId => ((n.ctx \in cyc_live) # (folds[n.ctx] > 0))]_vars

\* C3 - Registry mutation excludes the cycle's enumeration: backend_stats_
\* does not change while the aggregator is between the start of its loop and
\* its read of stats_history_, and the loop never folds a context that has
\* already been unregistered.
C3_RegistryExcludesCycle ==
  [][/\ InLoop => backend_stats_' = backend_stats_
     /\ (AggFold /\ IncludedInCycle(cur.id)) => folds[cur.ctx] = 0]_vars

\* C4 - Registry uniqueness: no step replaces the context an identity is
\* registered with, no context is registered under two identities, and
\* RegisterContext of a registered identity ends in the assertion failure.
C4_RegistryUniqueness ==
  [][/\ \A id \in Registered :
          id \in DOMAIN backend_stats_' => backend_stats_'[id] = backend_stats_[id]
     /\ \A a, b \in DOMAIN backend_stats_' :
          backend_stats_'[a] = backend_stats_'[b] => a = b
     /\ \A id \in Registered : RegisterContext(id) => failed']_vars

\* C4 witness: RegisterContext was called for a registered identity and the
\* assertion fired.
C4_Witness == failed

\* C5 - Accumulator result: at the end of a cycle during which no counter
\* was incremented, every counter of aggregated_stats_ is the stats_history_
\* counter plus the sum of that counter over the registered contexts other
\* than the aggregator thread's own.
C5_AccumulatorResult ==
  [][(CycleEnds /\ ~cyc_dirty) =>
       \A f \in Counters :
         aggregated_stats_'.cnt[f] = stats_history_'.cnt[f] + NonSelfLiveSum(f)']_vars

\* C6 - Self-exclusion: the step of the loop that is at the context
\* registered under the aggregator thread's identity leaves aggregated_stats_
\* and that context as they are, wherever the entry comes in the iteration.
C6_SelfExclusion ==
  [][(AggFold /\ AggId \in Registered /\ cur.ctx = backend_stats_[AggId]) =>
       /\ aggregated_stats_' = aggregated_stats_
       /\ ctx_stats' = ctx_stats]_vars

\* C6 witness: the loop of a cycle is over; the aggregator thread's context
\* was registered with counts before the cycle began and still is, a
\* worker's counts are in aggregated_stats_, the aggregator's are not.
C6_Witness ==
  /\ InLoop /\ cur = NoNode /\ pending = {} /\ ~cyc_dirty
  /\ \E n \in cyc_start :
       /\ n.id = AggId
       /\ AggId \in Registered /\ backend_stats_[AggId] = n.ctx
       /\ ctx_stats[n.ctx].cnt["txn_committed"] > 0
       /\ n.ctx \notin cyc_live
  /\ cyc_live # {}
  /\ aggregated_stats_.cnt["txn_committed"] > 0
  /\ aggregated_stats_.cnt["txn_committed"] = NonSelfLiveSum("txn_committed")

\* C7 - Idempotent unregister: UnregisterContext of an identity that is not
\* registered leaves backend_stats_, stats_history_ and thread_number_
\* unchanged, and no context is ever folded into stats_history_ twice.
C7_IdempotentUnregister ==
  [][/\ \A id \in Ids \ Registered :
          UnregisterContext(id) =>
            /\ backend_stats_' = backend_stats_
            /\ stats_history_' = stats_history_
            /\ thread_number_' = thread_number_
     /\ \A c \in Contexts : folds'[c] <= 1]_vars

\* C7 witness: the only context ever registered has been unregistered, with
\* counts, and UnregisterContext has found an identity absent.
C7_Witness ==
  /\ already_deleted
  /\ Registered = {}
  /\ next_ctx = 2
  /\ folds[1] = 1
  /\ stats_history_.cnt["txn_committed"] > 0
  /\ thread_number_ = 0

\* C8 - Instantaneous throughput: every cycle stores the current total of
\* committed transactions as the previous total, and its instantaneous
\* throughput is the difference of the two totals divided by the configured
\* interval in seconds.
C8_InstantThroughput ==
  [][CycleEnds =>
       /\ total_prev_txn_committed_' = CommittedTotal(aggregated_stats_')
       /\ throughput_' =
            Rat((total_prev_txn_committed_' - total_prev_txn_committed_) * 1000,
                aggregation_interval_ms_)]_vars

\* C9 - EWMA warm-up: the first cycle leaves the weighted average equal to
\* its instantaneous throughput; every later cycle leaves it at 0.4 times its
\* instantaneous throughput plus 0.6 times the weighted average before it.
C9_EwmaWarmUp ==
  [][CycleEnds =>
       weighted_avg_throughput' =
         IF interval_cnt' = 1 THEN throughput_'
         ELSE RatAdd(RatMul(<<2, 5>>, throughput_'),
                     RatMul(<<3, 5>>, weighted_avg_throughput))]_vars

\* C9 witness: a second or later cycle has smoothed: its weighted average is
\* neither its instantaneous throughput nor zero.
C9_Witness ==
  /\ interval_cnt >= 2
  /\ agg_pc = "wait"
  /\ weighted_avg_throughput # throughput_
  /\ weighted_avg_throughput # RatInt(0)

Occurrences(q, r) == Cardinality({i \in 1..Len(q) : q[i] = r})
EmittedRows(r) == {i \in 1..Len(emitted) : emitted[i].rec = r}
RECURSIVE QueuedIn(_, _)
\* the occurrences of record r in the queues of the contexts of S
QueuedIn(S, r) ==
  IF S = {} THEN 0
  ELSE LET c == CHOOSE d \in S : TRUE
       IN  Occurrences(ctx_stats[c].q, r) + QueuedIn(S \ {c}, r)
CycleOver(k) == interval_cnt > k \/ (interval_cnt = k /\ agg_pc = "wait")

\* C10 - Drain-once: every enqueued record is in exactly one place, a
\* context's queue, the queue of stats_history_, the accumulator's queue or
\* one row handed to the sink; and a record a worker enqueued is handed to
\* the sink by the end of the cycle it is due in, in that cycle or before.
C10_DrainOnce ==
  \A r \in Records :
    /\ r < next_rec =>
         QueuedIn(Contexts, r) + Occurrences(stats_history_.q, r)
           + Occurrences(aggregated_stats_.q, r) + Cardinality(EmittedRows(r)) = 1
    /\ r >= next_rec =>
         QueuedIn(Contexts, r) + Occurrences(stats_history_.q, r)
           + Occurrences(aggregated_stats_.q, r) + Cardinality(EmittedRows(r)) = 0
    /\ (deadline[r] > 0 /\ CycleOver(deadline[r])) =>
         \E i \in EmittedRows(r) : emitted[i].cycle <= deadline[r]

\* C10 witness: a worker enqueued a record before a cycle began, no context
\* was registered any more when the cycle began, and the cycle handed the
\* record to the sink in a transaction that committed: the record was still
\* queued in its context when the context was unregistered.
C10_Witness ==
  \E r \in Records :
    /\ deadline[r] > 0
    /\ deadline[r] = interval_cnt
    /\ agg_pc = "wait"
    /\ cyc_start = {}
    /\ \E c \in Contexts : folds[c] = 1
    /\ \E i \in EmittedRows(r) : emitted[i].ok /\ emitted[i].cycle = deadline[r]

\* every variable but noop_calls
stateVars == <<engineVars, lifeVars, agg_pc, interval_cnt,
               weighted_avg_throughput, stop_at>>

\* C11 - Stop blocks until exit and always returns: wherever the aggregator
\* thread is when ShutdownAggregator clears is_aggregating_ (waiting, between
\* its wake-up and its cycle, in a cycle), the call returns eventually; when
\* join returns the thread has left RunAggregator; and the thread leaves
\* RunAggregator from its wait only, so a cycle in flight is run to its end.
C11_StopReturns ==
  /\ \A p \in {"wait", "run", "loop", "done"} :
       (ctl_pc = "notify" /\ stop_at = p) ~> (ctl_pc = "idle" /\ stop_at = p)
  /\ [][(ctl_pc = "join" /\ ctl_pc' = "idle") =>
          (agg_pc' = "done" /\ threads' = 0)]_vars
  /\ [][(agg_pc # "done" /\ agg_pc' = "done") => agg_pc = "wait"]_vars

\* C11 witness: ShutdownAggregator was called while the first cycle's loop
\* was running and has returned; the cycle was completed and the thread has
\* ended.
C11_Witness ==
  /\ stop_at = "loop"
  /\ ctl_pc = "idle"
  /\ ~is_aggregating_
  /\ agg_pc = "done"
  /\ threads = 0
  /\ interval_cnt = 1
  /\ cyc_start # {}

\* C12 - Stop is idempotent: a ShutdownAggregator call that finds
\* is_aggregating_ false changes nothing of the aggregator's state, and while
\* the aggregator is stopped nothing notifies or joins: the controlling
\* thread leaves its rest only to launch.
C12_StopIdempotent ==
  [][/\ (~is_aggregating_ /\ ShutdownAggregator) => UNCHANGED stateVars
     /\ (~is_aggregating_ /\ ctl_pc = "idle") =>
          /\ ctl_pc' \in {"idle", "launch"}
          /\ notified' = notified]_vars

\* C12 witness: the aggregator was shut down, the thread has been joined and
\* was never launched again, and a ShutdownAggregator call has found
\* is_aggregating_ false.
C12_Witness ==
  /\ "shutdown" \in noop_calls
  /\ launches = 0
  /\ stop_at # "none"
  /\ ~is_aggregating_
  /\ ctl_pc = "idle"
  /\ agg_pc = "done"
  /\ threads = 0

\* C13 - The loop runs while RUNNING: while the aggregator is launched and
\* ShutdownAggregator has not been called the thread does not leave its
\* loop, and a wait that timed out is followed by one cycle and then by
\* another wait.
C13_LoopWhileRunning ==
  [][/\ (is_aggregating_ /\ ctl_pc = "idle" /\ agg_pc # "done") =>
          agg_pc' # "done"
     /\ agg_pc = "run" => agg_pc' \in {"run", "loop"}
     /\ (agg_pc = "loop" /\ agg_pc' # "loop") => agg_pc' = "wait"]_vars

\* C14 - No final cycle on shutdown: a wait that a notification has ended,
\* or that ends after is_aggregating_ was cleared, is followed by no cycle;
\* a cycle begins only after the thread has read is_aggregating_ as true;
\* and while the aggregator is stopped (the flag clear, ShutdownAggregator
\* returned) the thread has ended, and only a thread that LaunchAggregator
\* spawns afresh runs again.
C14_NoFinalCycle ==
  [][/\ (agg_pc = "wait" /\ (notified \/ ~is_aggregating_)) =>
          agg_pc' \in {"wait", "done"}
     /\ (agg_pc # "loop" /\ agg_pc' = "loop") =>
          (agg_pc = "run" \/ is_aggregating_)
     /\ (~is_aggregating_ /\ ctl_pc = "idle") =>
          /\ agg_pc = "done"
          /\ threads = 0
          /\ agg_pc' # "done" => (LaunchAggregator /\ threads' = 1)]_vars

\* C14 witness: ShutdownAggregator was called while the thread waited after
\* its first cycle and has returned; a context registered since that cycle
\* began has been in no cycle.
C14_Witness ==
  /\ stop_at = "wait"
  /\ ctl_pc = "idle"
  /\ ~is_aggregating_
  /\ agg_pc = "done"
  /\ interval_cnt = 1
  /\ \E id \in Registered : \A n \in cyc_start : n.id # id

C16_OneTask ==
  /\ [](threads \in {0, 1} /\ (threads = 0 <=> agg_pc = "done"))
  /\ [][/\ threads' > threads => (LaunchAggregator /\ threads = 0)
        /\ (LaunchAggregator /\ is_aggregating_) =>
             (threads' = threads /\ agg_pc' = agg_pc)]_vars

\* C16 witness: the first thread was shut down and joined, LaunchAggregator
\* has spawned a second one, and a LaunchAggregator call made while the
\* aggregator ran has spawned nothing.
C16_Witness ==
  /\ launches = 1
  /\ threads = 1
  /\ is_aggregating_
  /\ ctl_pc = "idle"
  /\ agg_pc = "wait"
  /\ "launch" \in noop_calls

\* C17 - stats_history_ counters change only in UnregisterContext of a
\* registered identity, by that context's counters: every other step
\* (RegisterContext, UnregisterContext of an identity not registered, the
\* steps of a cycle, an increment) leaves them, and none lowers one.
C17_HistoryFrame ==
  [][failed' \/
     /\ \A f \in Counters : stats_history_'.cnt[f] >= stats_history_.cnt[f]
     /\ stats_history_'.cnt # stats_history_.cnt =>
          \E id \in Registered :
            /\ UnregisterContext(id)
            /\ \A f \in Counters :
                 stats_history_'.cnt[f] =
                   stats_history_.cnt[f] + ctx_stats[backend_stats_[id]].cnt[f]
     /\ ( \/ \E id \in Ids : RegisterContext(id)
          \/ \E id \in Ids \ Registered : UnregisterContext(id)
          \/ AggBegin \/ AggFold \/ CycleEnds ) =>
          stats_history_'.cnt = stats_history_.cnt]_vars

\* C17 witness: a context with counts was unregistered, an identity not
\* registered was unregistered too, and a cycle that began afterwards has
\* read stats_history_ and left its counters.
C17_Witness ==
  /\ stats_history_.cnt["txn_committed"] > 0
  /\ already_deleted
  /\ cyc_start = {}
  /\ interval_cnt >= 1
  /\ agg_pc = "wait"
  /\ aggregated_stats_.cnt = stats_history_.cnt

\* C18 - Durable log cadence: the cycle counter grows by one at the start of
\* every cycle and by nothing else; the end of a cycle appends one summary
\* (interval, aggregate, weighted, average and current throughput) to the
\* log when the counter is a multiple of STATS_LOG_INTERVALS and the file is
\* good, and nothing otherwise; no other step writes to the log; and
\* whether or not the summary could be written the thread waits again.
C18_LogCadence ==
  [][/\ AggBegin => interval_cnt' = interval_cnt + 1
     /\ interval_cnt' # interval_cnt => AggBegin
     /\ CycleEnds =>
          /\ agg_pc' = "wait"
          /\ IF interval_cnt % STATS_LOG_INTERVALS = 0 /\ ofs_good
             THEN ofs_' = Append(ofs_,
                    [interval |-> interval_cnt,
                     stats |-> aggregated_stats_'.cnt,
                     weighted |-> weighted_avg_throughput',
                     average |-> Rat(total_prev_txn_committed_', interval_cnt),
                     current |-> throughput_'])
             ELSE ofs_' = ofs_
     /\ ofs_' # ofs_ => CycleEnds]_vars

\* C18 witness: the first cycle wrote nothing, the second has appended its
\* summary, with counts in it.
C18_Witness ==
  /\ interval_cnt = STATS_LOG_INTERVALS
  /\ agg_pc = "wait"
  /\ Len(ofs_) = 1
  /\ ofs_[1].interval = STATS_LOG_INTERVALS
  /\ ofs_[1].stats["txn_committed"] > 0

\* C19 - Non-negative delta: the total of committed transactions a cycle
\* computes is not below the total the cycle before it computed, so the
\* instantaneous throughput is not negative.
C19_NonNegativeDelta ==
  [][CycleEnds =>
       /\ total_prev_txn_committed_' >= total_prev_txn_committed_
       /\ throughput_'[1] >= 0]_vars

\* C20 - Live count matches the map: thread_number_ is the number of entries
\* of backend_stats_ and is not negative; RegisterContext raises both by
\* one, UnregisterContext of a registered identity lowers both by one.
C20_LiveCount ==
  /\ [](thread_number_ = Cardinality(Registered) /\ thread_number_ >= 0)
  /\ [][failed' \/
        /\ \A id \in Ids : RegisterContext(id) =>
             /\ thread_number_' = thread_number_ + 1
             /\ Cardinality(Registered') = Cardinality(Registered) + 1
        /\ \A id \in Registered : UnregisterContext(id) =>
             /\ thread_number_' = thread_number_ - 1
             /\ Cardinality(Registered') = Cardinality(Registered) - 1]_vars

\* C20 witness: two contexts were registered and one of them has been
\* unregistered: one entry is left and thread_number_ is 1.
C20_Witness ==
  /\ next_ctx = 3
  /\ \E c \in Contexts : folds[c] = 1
  /\ Cardinality(Registered) = 1
  /\ thread_number_ = 1
==========================================================================
